---- MODULE Spec2Model ----
(***************************************************************************)
(* The auto-trader edge function (src/unnamed/part_000): executeTrade,     *)
(* placeTPSLOrders and checkTakeProfitStopLoss, together with the two      *)
(* tables they use (user_settings, orders), the exchange they call and the *)
(* settings panel that writes user_settings.                               *)
(*                                                                         *)
(* Every await of the handlers is one step of an invocation; the code      *)
(* between two awaits runs with the step of the await before it.           *)
(*                                                                         *)
(* Numbers.  Prices are multiples of 100 and percentages are integers, so  *)
(* avgPrice * (1 -/+ pct/100) is the integer (avgPrice * (100 -/+ pct))    *)
(* \div 100, without rounding.  An optional value (undefined / null in the *)
(* code) is the empty tuple, a present value v is <<v>>.  Numeric strings  *)
(* of the exchange's JSON are sequences of decimal digits.                 *)
(***************************************************************************)
EXTENDS Integers, Sequences, FiniteSets, TLC

\* ------------------------------------------------------------ bounds ----
\* capacity of the orders table in Spec: a full table answers every insert
\* with an error
MaxOrders == 1
\* capacity of the orders table in SpecMon
MaxMonOrders == 2

\* capacity of the orders table in SpecRace
MaxRaceOrders == 3

\* ------------------------------------------------------- JS helpers -----
Null == <<>>
Some(v) == <<v>>

\* JavaScript truthiness of an optional number: undefined, null and 0 are falsy
Truthy(x) == x # Null /\ x[1] # 0

\* a || b on optional numbers
OrElse(a, b) == IF Truthy(a) THEN a ELSE b

\* Number -> decimal string, as a template literal or the exchange prints it
RECURSIVE ToDigits(_)
ToDigits(n) == IF n < 10 THEN <<n>> ELSE Append(ToDigits(n \div 10), n % 10)

\* parseFloat on a string of decimal digits
RECURSIVE parseFloat(_)
parseFloat(s) ==
  IF Len(s) = 0 THEN 0
  ELSE 10 * parseFloat(SubSeq(s, 1, Len(s) - 1)) + s[Len(s)]

\* String.prototype.toLowerCase on the exchange's status words
toLowerCase(s) ==
  CASE s = "NEW" -> "new"
    [] s = "PARTIALLY_FILLED" -> "partially_filled"
    [] s = "FILLED" -> "filled"
    [] OTHER -> s

\* ----------------------------------------------------------- domains ----
Procs == {"p1", "p2"}
UserId == "u1"
Symbol == "BTCUSDT"
Sides == {"BUY", "SELL"}

\* user_settings column defaults (percentages), scaled limits
default_stop_loss_percent == 5
default_take_profit_percent == 10
\* limits a user saves in the settings panel
DailyCaps == {1}
MonCaps == {2}
ExitCaps == {2}
RaceCaps == {2}
PositionCaps == {300}
\* the position size limits of SpecSize: the form's number input takes any
\* number, a negative one included
SizeLimits == {0, 300, -100}
\* the API key and the secret key a user saves: none, or both
Credentials == { <<Null, Null>>, <<Some("api-key"), Some("secret-key")>> }

\* what callers send
PercentPairs ==
  { <<Null, Null>>, <<Some(0), Some(20)>>, <<Some(100), Null>>, <<Some(20), Some(100)>> }

\* what the exchange quotes
TickerPrices == {100, 110}
ExitPrices == {90, 100, 110}

\* the instants of a run, in milliseconds
Clock == {1000, 2000}

\* the answers of the exchange to an order: status and fill price (0: no fill)
AllShapes ==
  { <<"NEW", 0>>, <<"FILLED", 0>>, <<"PARTIALLY_FILLED", 100>>,
    <<"FILLED", 100>>, <<"FILLED", 200>> }
GateShapes == { <<"NEW", 0>>, <<"FILLED", 100>> }
MonShapes == { <<"NEW", 0>>, <<"FILLED", 100>> }

TradeSignal(side, qty, price, type, pcts, bot) ==
  [ symbol |-> Symbol, side |-> side, quantity |-> qty, price |-> price,
    type |-> type, timeInForce |-> Null, userId |-> UserId, botId |-> bot,
    stopLossPercent |-> pcts[1], takeProfitPercent |-> pcts[2] ]

\* the requests of Spec: with and without a price, below and above the
\* position size limit, market and limit orders
Signals ==
  { TradeSignal(sd, v[1], v[2], v[3], <<Null, Null>>, Null) :
      sd \in Sides,
      v \in { <<2, Null, "MARKET">>, <<2, Some(100), "MARKET">>,
              <<4, Some(100), "MARKET">>, <<2, Some(100), "LIMIT">>,
              <<2, Null, "LIMIT">> } }

\* the requests of SpecProtect: market orders, with and without percentages
ProtectSignals ==
  { TradeSignal(sd, q, Null, "MARKET", pc, Null) :
      sd \in Sides, q \in {2, 4}, pc \in PercentPairs }

\* the requests of SpecMon: market orders that open the positions
MonSignals ==
  { TradeSignal(sd, q, Null, "MARKET", <<Null, Null>>, Null) :
      sd \in Sides, q \in {2} }

\* the requests of SpecExit: market orders that open positions, of a bot and
\* of none, with the default levels and with a take profit on the losing side
\* of the fill price
ExitSignals ==
  { TradeSignal("BUY", 2, Null, "MARKET", <<Null, Null>>, Some("bot-1")),
    TradeSignal("SELL", 2, Null, "MARKET", <<Null, Null>>, Null),
    TradeSignal("BUY", 2, Null, "MARKET", <<Null, Some(-10)>>, Null) }
ExitShapes == { <<"FILLED", 100>> }

\* the requests of SpecWire: market and limit orders, with and without a
\* price and a time in force
WireSignals ==
  { [TradeSignal(sd, 2, v[1], v[2], <<Null, Null>>, Null) EXCEPT !.timeInForce = v[3]] :
      sd \in Sides,
      v \in { <<Null, "MARKET", Null>>, <<Some(100), "LIMIT", Null>>,
              <<Some(100), "LIMIT", Some("IOC")>>, <<Null, "LIMIT", Some("GTC")>> } }
WireShapes == { <<"NEW", 0>>, <<"FILLED", 100>> }

\* the requests of SpecRace: a market order that opens a position
RaceSignals == { TradeSignal("BUY", 2, Null, "MARKET", <<Null, Null>>, Null) }
RaceShapes == { <<"FILLED", 100>> }

\* the requests of SpecSize: market orders without a price
SizeSignals ==
  { TradeSignal(sd, q, Null, "MARKET", <<Null, Null>>, Null) : sd \in Sides, q \in {2, 4} }
SizeShapes == { <<"NEW", 0>>, <<"FILLED", 200>> }

NoSignal == TradeSignal("BUY", 0, Null, "MARKET", <<Null, Null>>, Null)

\* ------------------------------------------------------------- state ----
VARIABLES
  user_settings,   \* the user's row of public.user_settings, Null when there is none
  orders,          \* the rows of public.orders, in insertion order
  marketPrice,     \* the price the exchange's ticker quotes for Symbol
  now,             \* the clock Date.now() reads, in milliseconds
  proc,            \* per invocation: its position in the handler and its locals
  window           \* history: the check_tp_sl runs started, the positions they
                   \* closed and the positions whose closing trade failed, since
                   \* the price last moved or anyone else wrote

vars == <<user_settings, orders, marketPrice, now, proc, window>>

SettingsRow(keys, trading, tpsl, cap, size) ==
  [ user_id |-> UserId,
    binance_api_key |-> keys[1], binance_secret_key |-> keys[2],
    auto_trading_enabled |-> trading, auto_tp_sl_enabled |-> tpsl,
    default_stop_loss_percent |-> default_stop_loss_percent,
    default_take_profit_percent |-> default_take_profit_percent,
    max_daily_trades |-> cap, max_position_size |-> size ]

NoWindow == [runs |-> 0, closed |-> {}, failed |-> {}]

\* an invocation that has not started
IdleProc ==
  [ pc |-> "idle", action |-> "none", signal |-> NoSignal,
    seen |-> Null, readErr |-> FALSE, dayCount |-> Null, tradesErr |-> FALSE,
    userSettings |-> Null, reply |-> Null, binanceOrder |-> Null,
    stopLossPrice |-> Null, takeProfitPrice |-> Null, savedOrder |-> Null,
    queryString |-> <<>>, signature |-> Null, wire |-> <<>>, faults |-> <<>>,
    trace |-> <<>>, n0 |-> 0, resp |-> Null,
    positions |-> <<>>, idx |-> 0, results |-> <<>>,
    triggerType |-> "", currentPrice |-> 0 ]

Init ==
  /\ user_settings = Null
  /\ orders = <<>>
  /\ marketPrice = 100
  /\ now = 1000
  /\ proc = [p \in Procs |-> IdleProc]
  /\ window = NoWindow

\* ---------------------------------------------------------- responses ---
Err(msg) == [message |-> msg, status |-> 0, body |-> ""]

\* ErrorResponse without the status: the JSON error object goes out as 200
ErrorResponse_DefaultStatus(err) ==
  [ status |-> 200, error |-> Some(err), success |-> FALSE, order |-> Null,
    tpSlEnabled |-> FALSE, stopLossPrice |-> Null, takeProfitPrice |-> Null,
    message |-> "", results |-> <<>>, account |-> Null ]

\* the catch of Deno.serve: a JSON error object with status 500
ErrorResponse(err) ==
  [ status |-> 500, error |-> Some(err), success |-> FALSE, order |-> Null,
    tpSlEnabled |-> FALSE, stopLossPrice |-> Null, takeProfitPrice |-> Null,
    message |-> "", results |-> <<>>, account |-> Null ]

\* the success response of executeTrade
TradeResponse(saved, enabled, sl, tp) ==
  [ status |-> 200, error |-> Null, success |-> TRUE, order |-> Some(saved),
    tpSlEnabled |-> enabled, stopLossPrice |-> sl, takeProfitPrice |-> tp,
    message |-> "", results |-> <<>>, account |-> Null ]

\* the two responses of checkTakeProfitStopLoss
InfoResponse(msg) ==
  [ status |-> 200, error |-> Null, success |-> FALSE, order |-> Null,
    tpSlEnabled |-> FALSE, stopLossPrice |-> Null, takeProfitPrice |-> Null,
    message |-> msg, results |-> <<>>, account |-> Null ]

ResultsResponse(results) ==
  [ status |-> 200, error |-> Null, success |-> FALSE, order |-> Null,
    tpSlEnabled |-> FALSE, stopLossPrice |-> Null, takeProfitPrice |-> Null,
    message |-> "", results |-> results, account |-> Null ]

\* the response of getAccountInfo: the account data as the exchange sent it
AccountResponse(accountData) ==
  [ status |-> 200, error |-> Null, success |-> FALSE, order |-> Null,
    tpSlEnabled |-> FALSE, stopLossPrice |-> Null, takeProfitPrice |-> Null,
    message |-> "", results |-> <<>>, account |-> Some(accountData) ]

\* an error has been raised, and which catch gets it: "serve" (Deno.serve,
\* line 74), "loop" (the position loop, line 363) or "placer" (line 219)
Raised(loc, err, catch) ==
  [loc EXCEPT !.faults = Append(@, [message |-> err.message, caught |-> catch])]

\* ----------------------------------------- checkTakeProfitStopLoss loop --
\* the for loop moves to the next position, or the handler returns the results
MonNext(loc) ==
  IF loc.idx < Len(loc.positions)
  THEN [loc EXCEPT !.pc = "mon_price", !.idx = loc.idx + 1]
  ELSE [loc EXCEPT !.pc = "done", !.resp = ResultsResponse(loc.results)]

\* Throw without the catch of the position loop: every error ends the invocation
Throw_EndsRun(loc, err) ==
  [Raised(loc, err, "serve") EXCEPT !.pc = "done", !.resp = ErrorResponse(err)]

\* an Error thrown inside executeTrade or getAccountInfo: caught by Deno.serve,
\* or by the catch of the position loop when the monitor called executeTrade
Throw(loc, err) ==
  IF loc.action # "check_tp_sl"
  THEN [Raised(loc, err, "serve") EXCEPT !.pc = "done", !.resp = ErrorResponse(err)]
  ELSE MonNext([Raised(loc, err, "loop") EXCEPT !.results =
                  Append(@, [ position |-> loc.positions[loc.idx].id,
                              outcome |-> "error", error |-> Some(err),
                              triggerType |-> "", currentPrice |-> 0,
                              closeResult |-> Null ])])

\* executeTrade returns its Response: to the caller of the function, or to the
\* position loop, which records it and moves on
Return(loc, response) ==
  IF loc.action # "check_tp_sl"
  THEN [loc EXCEPT !.pc = "done", !.resp = response]
  ELSE MonNext([loc EXCEPT
         !.results = Append(@, [ position |-> loc.positions[loc.idx].id,
                                 outcome |-> "closed", error |-> Null,
                                 triggerType |-> loc.triggerType,
                                 currentPrice |-> loc.currentPrice,
                                 closeResult |-> Some(response.order[1].id) ])])

Set(p, loc) == proc' = [proc EXCEPT ![p] = loc]

\* history: the step from before to after was the catch of the position loop
\* taking an error of the closing executeTrade
Noted(before, after) ==
  LET InLoop(f) == f.caught = "loop" IN
  IF /\ before.action = "check_tp_sl"
     /\ Len(SelectSeq(after.faults, InLoop)) > Len(SelectSeq(before.faults, InLoop))
  THEN [window EXCEPT !.failed = @ \cup {before.positions[before.idx].id}]
  ELSE window

\* --------------------------------------------------------- executeTrade --
\* the locals of a fresh executeTrade call
EnterTrade(loc, signal) ==
  [loc EXCEPT !.pc = "et_settings", !.signal = signal,
              !.seen = Null, !.readErr = FALSE, !.dayCount = Null, !.tradesErr = FALSE,
              !.userSettings = Null, !.reply = Null, !.binanceOrder = Null,
              !.stopLossPrice = Null, !.takeProfitPrice = Null,
              !.savedOrder = Null, !.queryString = <<>>, !.signature = Null,
              !.wire = <<>>, !.trace = <<>>, !.n0 = Len(orders)]

\* Deno.serve dispatches action 'execute_trade'
StartTrade(p, S) ==
  /\ proc[p].pc \in {"idle", "done"}
  /\ \E signal \in S :
       Set(p, EnterTrade([IdleProc EXCEPT !.action = "execute_trade"], signal))
  /\ window' = NoWindow
  /\ UNCHANGED <<now, user_settings, orders, marketPrice>>

\* SettingsGate without the auto_trading_enabled gate
SettingsGate_SkipsTradingFlag(loc, settingsError) ==
  LET found == [loc EXCEPT !.seen = user_settings, !.readErr = settingsError] IN
  IF settingsError \/ user_settings = Null
  THEN Throw(found, Err("User settings not found"))
  ELSE IF user_settings.binance_api_key = Null \/ user_settings.binance_secret_key = Null
  THEN Throw(found, Err("Binance API credentials not configured"))
  ELSE [found EXCEPT !.pc = "et_count", !.userSettings = user_settings]

\* lines 92-109: read the user's settings; the three configuration gates
SettingsGate(loc, settingsError) ==
  LET found == [loc EXCEPT !.seen = user_settings, !.readErr = settingsError] IN
  IF settingsError \/ user_settings = Null
  THEN Throw(found, Err("User settings not found"))
  ELSE IF ~user_settings.auto_trading_enabled
  THEN Throw(found, Err("Auto trading is disabled for this user"))
  ELSE IF user_settings.binance_api_key = Null \/ user_settings.binance_secret_key = Null
  THEN Throw(found, Err("Binance API credentials not configured"))
  ELSE [found EXCEPT !.pc = "et_count", !.userSettings = user_settings]

ET_Settings(p) ==
  /\ proc[p].pc = "et_settings"
  /\ \E settingsError \in BOOLEAN : Set(p, SettingsGate(proc[p], settingsError))
  /\ window' = Noted(proc[p], proc'[p])
  /\ UNCHANGED <<now, user_settings, orders, marketPrice>>

\* lines 112-118: the rows of the user created today (a run of the model stays
\* within one UTC day and ends before that day's last millisecond)
TodayTrades(user) == { i \in 1..Len(orders) : orders[i].user_id = user }

\* line 124
DailyLimitReached(todayTrades, userSettings) ==
  todayTrades # Null /\ todayTrades[1] >= userSettings.max_daily_trades

\* line 129
TradeValue(signal) == signal.quantity * OrElse(signal.price, Some(0))[1]

\* ExceedsPositionSize comparing the price alone with the limit
ExceedsPositionSize_IgnoresQuantity(signal, userSettings) ==
  OrElse(signal.price, Some(0))[1] > userSettings.max_position_size

\* ExceedsPositionSize valuing a request without a price at the ticker's price
ExceedsPositionSize_PricesAtMarket(signal, userSettings) ==
  signal.quantity * OrElse(signal.price, Some(marketPrice))[1] > userSettings.max_position_size

\* line 130
ExceedsPositionSize(signal, userSettings) ==
  TradeValue(signal) > userSettings.max_position_size

\* line 138: the branch that appends price and timeInForce to the const queryString
AppendsLimitParams(signal) == Truthy(signal.price) /\ signal.type = "LIMIT"

\* createHmac('sha256', key).update(message).digest('hex'): the digest is a
\* term over the key and the message, so two digests are equal only for the
\* same key and the same message
createHmac(key, message) == [alg |-> "sha256", key |-> key, message |-> message]

\* line 136: the template literal, as the parameters it joins with &
QueryString(signal, timestamp) ==
  << <<"symbol", signal.symbol>>, <<"side", signal.side>>, <<"type", signal.type>>,
     <<"quantity", ToDigits(signal.quantity)>>, <<"timestamp", ToDigits(timestamp)>> >>

\* lines 111-144: the daily limit, the position size limit, the query string
\* and its signature
LimitGates(loc, tradesError) ==
  LET count == Cardinality(TodayTrades(loc.signal.userId))
      todayTrades == IF tradesError THEN Null ELSE Some(count)
      counted == [loc EXCEPT !.dayCount = Some(count), !.tradesErr = tradesError]
  IN
  IF DailyLimitReached(todayTrades, loc.userSettings)
  THEN Throw(counted, Err("Daily trade limit reached"))
  ELSE IF ExceedsPositionSize(loc.signal, loc.userSettings)
  THEN Throw(counted, Err("Trade size exceeds maximum position size"))
  ELSE IF AppendsLimitParams(loc.signal)
  THEN Throw(counted, Err("Assignment to constant variable."))
  ELSE LET queryString == QueryString(loc.signal, now) IN
       [counted EXCEPT !.pc = "et_submit", !.trace = Append(@, "sign"),
                       !.queryString = queryString,
                       !.signature = Some(createHmac(loc.userSettings.binance_secret_key[1],
                                                     queryString))]

ET_Count(p, queryErrors) ==
  /\ proc[p].pc = "et_count"
  /\ \E tradesError \in queryErrors : Set(p, LimitGates(proc[p], tradesError))
  /\ window' = Noted(proc[p], proc'[p])
  /\ UNCHANGED <<now, user_settings, orders, marketPrice>>


\* ------------------------------------------------------- the exchange ----
\* the JSON of an accepted order (BinanceOrderResponse): the request echoed,
\* a status, and the fills the response carries
BinanceOrder(signal, status, executed, fills) ==
  [ symbol |-> signal.symbol, side |-> signal.side, type |-> signal.type,
    origQty |-> ToDigits(signal.quantity), executedQty |-> ToDigits(executed),
    price |-> ToDigits(0), status |-> status, fills |-> fills ]

\* the fills array of a response: empty, or one fill at price f
FillsAt(f) == IF f = 0 THEN <<>> ELSE <<[price |-> ToDigits(f)]>>

\* the executed quantity that goes with a status
ExecutedQty(signal, status) ==
  CASE status = "FILLED" -> signal.quantity
    [] status = "PARTIALLY_FILLED" -> signal.quantity \div 2
    [] OTHER -> 0

\* what POST /api/v3/order can answer to the primary order; a shape is a
\* status and the price of the fill the response carries (0 for no fill)
AcceptedOrders(signal, shapes) ==
  { BinanceOrder(signal, sh[1], ExecutedQty(signal, sh[1]), FillsAt(sh[2])) : sh \in shapes }

\* the outcomes of the fetch of lines 147-154: the fetch rejects (no response),
\* a non-2xx response with a body, or an accepted order
OrderReplies(signal, shapes) ==
  { [threw |-> TRUE, ok |-> FALSE, status |-> 0, body |-> "", order |-> Null] }
  \cup { [threw |-> FALSE, ok |-> FALSE, status |-> 400, body |-> "rejected", order |-> Null] }
  \cup { [threw |-> FALSE, ok |-> TRUE, status |-> 200, body |-> "", order |-> Some(o)] :
           o \in AcceptedOrders(signal, shapes) }

\* OrderRequest sending the API key as a body parameter after the signature
OrderRequest_KeyInBody(userSettings, queryString, signature) ==
  [ method |-> "POST", path |-> "/api/v3/order",
    headers |-> << <<"Content-Type", "application/x-www-form-urlencoded">> >>,
    body |-> queryString \o << <<"signature", signature>>,
                               <<"apiKey", userSettings.binance_api_key[1]>> >> ]

\* lines 147-154, 259-266 and 275-282: the POST to /api/v3/order; the body is
\* `${queryString}&signature=${signature}`
OrderRequest(userSettings, queryString, signature) ==
  [ method |-> "POST", path |-> "/api/v3/order",
    headers |-> << <<"X-MBX-APIKEY", userSettings.binance_api_key[1]>>,
                   <<"Content-Type", "application/x-www-form-urlencoded">> >>,
    body |-> Append(queryString, <<"signature", signature>>) ]

\* ProtectivePrices using the BUY formulas for both sides
ProtectivePrices_IgnoresSide(userSettings, signal, binanceOrder) ==
  IF userSettings.auto_tp_sl_enabled /\ Len(binanceOrder.fills) > 0
  THEN LET avgPrice == parseFloat(binanceOrder.fills[1].price)
           slPercent == OrElse(signal.stopLossPercent,
                               Some(userSettings.default_stop_loss_percent))[1]
           tpPercent == OrElse(signal.takeProfitPercent,
                               Some(userSettings.default_take_profit_percent))[1]
       IN << Some((avgPrice * (100 - slPercent)) \div 100),
             Some((avgPrice * (100 + tpPercent)) \div 100) >>
  ELSE <<Null, Null>>

\* ProtectivePrices computing only the stop loss when the response has no fills
ProtectivePrices_StopOnlyWithoutFills(userSettings, signal, binanceOrder) ==
  IF userSettings.auto_tp_sl_enabled
  THEN LET filled == Len(binanceOrder.fills) > 0
           avgPrice == IF filled THEN parseFloat(binanceOrder.fills[1].price) ELSE 100
           slPercent == OrElse(signal.stopLossPercent,
                               Some(userSettings.default_stop_loss_percent))[1]
           tpPercent == OrElse(signal.takeProfitPercent,
                               Some(userSettings.default_take_profit_percent))[1]
       IN IF signal.side = "BUY"
          THEN << Some((avgPrice * (100 - slPercent)) \div 100),
                  IF filled THEN Some((avgPrice * (100 + tpPercent)) \div 100) ELSE Null >>
          ELSE << Some((avgPrice * (100 + slPercent)) \div 100),
                  IF filled THEN Some((avgPrice * (100 - tpPercent)) \div 100) ELSE Null >>
  ELSE <<Null, Null>>

\* ProtectivePrices with each side's levels on the other side of the fill price
ProtectivePrices_OtherSide(userSettings, signal, binanceOrder) ==
  IF userSettings.auto_tp_sl_enabled /\ Len(binanceOrder.fills) > 0
  THEN LET avgPrice == parseFloat(binanceOrder.fills[1].price)
           slPercent == OrElse(signal.stopLossPercent,
                               Some(userSettings.default_stop_loss_percent))[1]
           tpPercent == OrElse(signal.takeProfitPercent,
                               Some(userSettings.default_take_profit_percent))[1]
       IN IF signal.side = "BUY"
          THEN << Some((avgPrice * (100 + slPercent)) \div 100),
                  Some((avgPrice * (100 - tpPercent)) \div 100) >>
          ELSE << Some((avgPrice * (100 - slPercent)) \div 100),
                  Some((avgPrice * (100 + tpPercent)) \div 100) >>
  ELSE <<Null, Null>>

\* lines 165-181: the protective prices, <<stopLossPrice, takeProfitPrice>>
ProtectivePrices(userSettings, signal, binanceOrder) ==
  IF userSettings.auto_tp_sl_enabled /\ Len(binanceOrder.fills) > 0
  THEN LET avgPrice == parseFloat(binanceOrder.fills[1].price)
           slPercent == OrElse(signal.stopLossPercent,
                               Some(userSettings.default_stop_loss_percent))[1]
           tpPercent == OrElse(signal.takeProfitPercent,
                               Some(userSettings.default_take_profit_percent))[1]
       IN IF signal.side = "BUY"
          THEN << Some((avgPrice * (100 - slPercent)) \div 100),
                  Some((avgPrice * (100 + tpPercent)) \div 100) >>
          ELSE << Some((avgPrice * (100 + slPercent)) \div 100),
                  Some((avgPrice * (100 - tpPercent)) \div 100) >>
  ELSE <<Null, Null>>

\* lines 184-202: orderData, the row to insert
OrderData(signal, userSettings, binanceOrder, stopLossPrice, takeProfitPrice) ==
  [ user_id |-> signal.userId,
    bot_id |-> signal.botId,
    symbol |-> binanceOrder.symbol,
    side |-> binanceOrder.side,
    type |-> binanceOrder.type,
    quantity |-> parseFloat(binanceOrder.origQty),
    price |-> IF Len(binanceOrder.price) > 0
              THEN Some(parseFloat(binanceOrder.price)) ELSE Null,
    filled_quantity |-> parseFloat(binanceOrder.executedQty),
    avg_fill_price |-> IF Len(binanceOrder.fills) > 0
                       THEN Some(parseFloat(binanceOrder.fills[1].price)) ELSE Null,
    status |-> toLowerCase(binanceOrder.status),
    executed |-> binanceOrder.status = "FILLED",
    stop_loss_price |-> stopLossPrice,
    take_profit_price |-> takeProfitPrice,
    auto_tp_sl_enabled |-> userSettings.auto_tp_sl_enabled ]

\* SubmitOrder without the check of binanceResponse.ok: the error body is read
\* as an order that is not filled
SubmitOrder_IgnoresHttpStatus(loc, reply) ==
  LET sent == [loc EXCEPT !.trace = Append(@, "submit"), !.reply = Some(reply),
                          !.wire = Append(@, OrderRequest(loc.userSettings, loc.queryString,
                                                          loc.signature[1]))]
      order == IF reply.ok THEN reply.order
               ELSE Some(BinanceOrder(loc.signal, "NEW", 0, <<>>))
  IN
  IF reply.threw
  THEN Throw(sent, Err("fetch failed"))
  ELSE LET prices == ProtectivePrices(loc.userSettings, loc.signal, order[1])
       IN [sent EXCEPT !.pc = "et_insert", !.binanceOrder = order,
                       !.stopLossPrice = prices[1], !.takeProfitPrice = prices[2]]

\* lines 146-181: the primary order is sent; a failure is thrown, an accepted
\* order gets its protective prices
SubmitOrder(loc, reply) ==
  LET sent == [loc EXCEPT !.trace = Append(@, "submit"), !.reply = Some(reply),
                          !.wire = Append(@, OrderRequest(loc.userSettings, loc.queryString,
                                                          loc.signature[1]))] IN
  IF reply.threw
  THEN Throw(sent, Err("fetch failed"))
  ELSE IF ~reply.ok
  THEN Throw(sent, [ message |-> "Binance API error",
                     status |-> reply.status, body |-> reply.body ])
  ELSE LET prices == ProtectivePrices(loc.userSettings, loc.signal, reply.order[1])
       IN [sent EXCEPT !.pc = "et_insert", !.binanceOrder = reply.order,
                       !.stopLossPrice = prices[1], !.takeProfitPrice = prices[2]]

ET_Submit(p, shapes) ==
  /\ proc[p].pc = "et_submit"
  /\ \E reply \in OrderReplies(proc[p].signal, shapes) :
       Set(p, SubmitOrder(proc[p], reply))
  /\ window' = Noted(proc[p], proc'[p])
  /\ UNCHANGED <<now, user_settings, orders, marketPrice>>

\* PlacesProtection without the test of the order's status
PlacesProtection_IgnoresStatus(userSettings, binanceOrder, stopLossPrice, takeProfitPrice) ==
  /\ userSettings.auto_tp_sl_enabled
  /\ Truthy(stopLossPrice)
  /\ Truthy(takeProfitPrice)

\* line 216: whether placeTPSLOrders is called
PlacesProtection(userSettings, binanceOrder, stopLossPrice, takeProfitPrice) ==
  /\ userSettings.auto_tp_sl_enabled
  /\ binanceOrder.status = "FILLED"
  /\ Truthy(stopLossPrice)
  /\ Truthy(takeProfitPrice)

\* the row the table stores for orderData: the id column gets its default
Stored(orderData) ==
  [ id |-> Len(orders) + 1 ] @@ orderData

\* lines 225-240
Success(loc, saved) ==
  TradeResponse(saved, loc.userSettings.auto_tp_sl_enabled,
                loc.stopLossPrice, loc.takeProfitPrice)

\* AfterInsert cancelling the exchange order when the insert failed
AfterInsert_CancelsOnFailure(loc, orderError, saved) ==
  IF orderError
  THEN Throw([loc EXCEPT !.trace = @ \o <<"insert_failed", "cancel">>],
             Err("Failed to save order to database"))
  ELSE LET kept == [loc EXCEPT !.trace = Append(@, "insert"), !.savedOrder = Some(saved)]
       IN IF PlacesProtection(loc.userSettings, loc.binanceOrder[1],
                              loc.stopLossPrice, loc.takeProfitPrice)
          THEN [kept EXCEPT !.pc = "tp_fetch"]
          ELSE Return(kept, Success(kept, saved))

\* AfterInsert going on to placeTPSLOrders although the insert failed
AfterInsert_ProtectsUnsaved(loc, orderError, saved) ==
  LET kept == IF orderError
              THEN [loc EXCEPT !.trace = Append(@, "insert_failed")]
              ELSE [loc EXCEPT !.trace = Append(@, "insert"), !.savedOrder = Some(saved)]
  IN IF PlacesProtection(loc.userSettings, loc.binanceOrder[1],
                         loc.stopLossPrice, loc.takeProfitPrice)
     THEN [kept EXCEPT !.pc = "tp_fetch"]
     ELSE IF orderError
     THEN Throw(kept, Err("Failed to save order to database"))
     ELSE Return(kept, Success(kept, saved))

\* lines 204-223 after the insert answered: a failed insert is thrown; after a
\* stored row, either placeTPSLOrders is entered or the response is returned
AfterInsert(loc, orderError, saved) ==
  IF orderError
  THEN Throw([loc EXCEPT !.trace = Append(@, "insert_failed")],
             Err("Failed to save order to database"))
  ELSE LET kept == [loc EXCEPT !.trace = Append(@, "insert"), !.savedOrder = Some(saved)]
       IN IF PlacesProtection(loc.userSettings, loc.binanceOrder[1],
                              loc.stopLossPrice, loc.takeProfitPrice)
          THEN [kept EXCEPT !.pc = "tp_fetch"]
          ELSE Return(kept, Success(kept, saved))

ET_Insert(p, capacity) ==
  /\ proc[p].pc = "et_insert"
  /\ LET loc == proc[p]
         orderData == OrderData(loc.signal, loc.userSettings, loc.binanceOrder[1],
                                loc.stopLossPrice, loc.takeProfitPrice)
     IN \E orderError \in BOOLEAN :
          /\ Len(orders) >= capacity => orderError
          /\ orders' = IF orderError THEN orders ELSE Append(orders, Stored(orderData))
          /\ Set(p, AfterInsert(loc, orderError, Stored(orderData)))
          /\ window' = IF loc.action = "check_tp_sl" /\ ~orderError
                       THEN [window EXCEPT !.closed = @ \cup {loc.positions[loc.idx].id}]
                       ELSE Noted(loc, proc'[p])
  /\ UNCHANGED <<now, user_settings, marketPrice>>

\* the CHECK constraints of public.orders on side, type and status
OrdersChecks(row) ==
  /\ row.side \in {"buy", "sell"}
  /\ row.type \in {"market", "limit", "stop_loss", "take_profit"}
  /\ row.status \in {"pending", "filled", "cancelled", "rejected"}

\* ET_Insert answers as the database does, with the row or with an error,
\* whatever the row is; ET_InsertChecked is the same step against the table
\* with its CHECK constraints: a row that violates them is answered with an
\* error and not stored
ET_InsertChecked(p, capacity) ==
  /\ ET_Insert(p, capacity)
  /\ LET loc == proc[p] IN
     ~OrdersChecks(OrderData(loc.signal, loc.userSettings, loc.binanceOrder[1],
                             loc.stopLossPrice, loc.takeProfitPrice))
     => orders' = orders

\* ------------------------------------------------------ placeTPSLOrders --
\* TakeProfitQuery on the side of the original order
TakeProfitQuery_SameSide(originalOrder, takeProfitPrice, tpTimestamp) ==
  << <<"symbol", originalOrder.symbol>>, <<"side", originalOrder.side>>,
     <<"type", "LIMIT">>, <<"quantity", originalOrder.executedQty>>,
     <<"price", ToDigits(takeProfitPrice)>>, <<"timeInForce", "GTC">>,
     <<"timestamp", ToDigits(tpTimestamp)>> >>

\* lines 244-254: the parameters of the take-profit order
TakeProfitQuery(originalOrder, takeProfitPrice, tpTimestamp) ==
  LET tpSide == IF originalOrder.side = "BUY" THEN "SELL" ELSE "BUY" IN
  << <<"symbol", originalOrder.symbol>>, <<"side", tpSide>>, <<"type", "LIMIT">>,
     <<"quantity", originalOrder.executedQty>>,
     <<"price", ToDigits(takeProfitPrice)>>, <<"timeInForce", "GTC">>,
     <<"timestamp", ToDigits(tpTimestamp)>> >>

\* lines 244-250, 269-270: the parameters of the stop-loss order
StopLossQuery(originalOrder, stopLossPrice, slTimestamp) ==
  LET slSide == IF originalOrder.side = "BUY" THEN "SELL" ELSE "BUY" IN
  << <<"symbol", originalOrder.symbol>>, <<"side", slSide>>, <<"type", "STOP_MARKET">>,
     <<"quantity", originalOrder.executedQty>>,
     <<"stopPrice", ToDigits(stopLossPrice)>>,
     <<"timestamp", ToDigits(slTimestamp)>> >>

\* a query string signed with the user's secret key and posted
SignedRequest(userSettings, queryString) ==
  OrderRequest(userSettings, queryString,
               createHmac(userSettings.binance_secret_key[1], queryString))

\* TakeProfitLeg without the try/catch of lines 217-222
TakeProfitLeg_Propagates(loc, threw) ==
  LET tpQueryString == TakeProfitQuery(loc.binanceOrder[1], loc.takeProfitPrice[1], now)
      sent == [loc EXCEPT !.trace = Append(@, "tp"),
                          !.wire = Append(@, SignedRequest(loc.userSettings, tpQueryString))]
  IN
  IF threw
  THEN Throw([sent EXCEPT !.trace = Append(@, "tpsl_error")], Err("fetch failed"))
  ELSE [sent EXCEPT !.pc = "sl_fetch"]

\* lines 252-266: the take-profit leg is sent; a rejected fetch leaves
\* placeTPSLOrders and is caught at line 219
TakeProfitLeg(loc, threw) ==
  LET tpQueryString == TakeProfitQuery(loc.binanceOrder[1], loc.takeProfitPrice[1], now)
      sent == [loc EXCEPT !.trace = Append(@, "tp"),
                          !.wire = Append(@, SignedRequest(loc.userSettings, tpQueryString))]
  IN
  IF threw
  THEN Return(Raised([sent EXCEPT !.trace = Append(@, "tpsl_error")],
                     Err("fetch failed"), "placer"),
              Success(loc, loc.savedOrder[1]))
  ELSE [sent EXCEPT !.pc = "sl_fetch"]

TP_Fetch(p) ==
  /\ proc[p].pc = "tp_fetch"
  /\ \E threw \in BOOLEAN : Set(p, TakeProfitLeg(proc[p], threw))
  /\ UNCHANGED <<now, user_settings, orders, marketPrice, window>>

\* lines 268-282: the stop-loss leg is sent
StopLossLeg(loc, threw) ==
  LET slQueryString == StopLossQuery(loc.binanceOrder[1], loc.stopLossPrice[1], now)
      sent == [loc EXCEPT !.trace = Append(@, "sl"),
                          !.wire = Append(@, SignedRequest(loc.userSettings, slQueryString))]
  IN
  Return(IF threw
         THEN Raised([sent EXCEPT !.trace = Append(@, "tpsl_error")],
                     Err("fetch failed"), "placer")
         ELSE sent,
         Success(loc, loc.savedOrder[1]))

SL_Fetch(p) ==
  /\ proc[p].pc = "sl_fetch"
  /\ \E threw \in BOOLEAN : Set(p, StopLossLeg(proc[p], threw))
  /\ UNCHANGED <<now, user_settings, orders, marketPrice, window>>

\* ------------------------------------------------- the settings panel ----
\* Settings.tsx handleSave: upsert of the whole form
SaveSettings(caps, sizes) ==
  /\ \E keys \in Credentials, cap \in caps, size \in sizes :
       user_settings' =
         IF user_settings = Null
         THEN SettingsRow(keys, FALSE, FALSE, cap, size)
         ELSE SettingsRow(keys, user_settings.auto_trading_enabled,
                          user_settings.auto_tp_sl_enabled, cap, size)
  /\ user_settings' # user_settings
  /\ window' = NoWindow
  /\ UNCHANGED <<now, orders, marketPrice, proc>>

\* AutoTrader toggleAutoTrading: upsert of auto_trading_enabled on the user's row
ToggleAutoTrading ==
  /\ user_settings # Null
  /\ user_settings' = [user_settings EXCEPT !.auto_trading_enabled = ~@]
  /\ window' = NoWindow
  /\ UNCHANGED <<now, orders, marketPrice, proc>>

\* ToggleAutoTPSL writing the new flag to the user's order rows as well
ToggleAutoTPSL_Retroactive ==
  /\ user_settings # Null
  /\ user_settings' = [user_settings EXCEPT !.auto_tp_sl_enabled = ~@]
  /\ orders' = [i \in 1..Len(orders) |->
                  [orders[i] EXCEPT !.auto_tp_sl_enabled = ~user_settings.auto_tp_sl_enabled]]
  /\ window' = NoWindow
  /\ UNCHANGED <<now, marketPrice, proc>>

\* AutoTrader toggleAutoTPSL: upsert of auto_tp_sl_enabled on the user's row
ToggleAutoTPSL ==
  /\ user_settings # Null
  /\ user_settings' = [user_settings EXCEPT !.auto_tp_sl_enabled = ~@]
  /\ window' = NoWindow
  /\ UNCHANGED <<now, orders, marketPrice, proc>>

\* ------------------------------------------- checkTakeProfitStopLoss ----
\* Deno.serve dispatches action 'check_tp_sl'
StartCheck(p) ==
  /\ proc[p].pc \in {"idle", "done"}
  /\ Set(p, [IdleProc EXCEPT !.action = "check_tp_sl", !.pc = "mon_settings",
                             !.n0 = Len(orders)])
  /\ window' = [window EXCEPT !.runs = IF @ < 3 THEN @ + 1 ELSE @]
  /\ UNCHANGED <<now, user_settings, orders, marketPrice>>

\* ProtectionGate without the test of auto_tp_sl_enabled
ProtectionGate_IgnoresFlag(loc, settingsError) ==
  IF settingsError \/ user_settings = Null
  THEN [loc EXCEPT !.pc = "done", !.resp = InfoResponse("Auto TP/SL not enabled")]
  ELSE [loc EXCEPT !.pc = "mon_query", !.userSettings = user_settings]

\* lines 286-298: without settings, or with auto TP/SL off, nothing is checked
ProtectionGate(loc, settingsError) ==
  IF settingsError \/ user_settings = Null \/ ~user_settings.auto_tp_sl_enabled
  THEN [loc EXCEPT !.pc = "done", !.resp = InfoResponse("Auto TP/SL not enabled")]
  ELSE [loc EXCEPT !.pc = "mon_query", !.userSettings = user_settings]

MON_Settings(p) ==
  /\ proc[p].pc = "mon_settings"
  /\ \E settingsError \in BOOLEAN : Set(p, ProtectionGate(proc[p], settingsError))
  /\ UNCHANGED <<now, user_settings, orders, marketPrice, window>>

\* lines 301-308: the filter of the open positions query
IsOpenPosition(row, userId) ==
  /\ row.user_id = userId
  /\ row.status = "filled"
  /\ row.auto_tp_sl_enabled = TRUE
  /\ row.stop_loss_price # Null
  /\ row.take_profit_price # Null

OpenPositions(userId) ==
  LET Open(row) == IsOpenPosition(row, userId) IN SelectSeq(orders, Open)

\* LoadPositions leaving out the positions whose closing trade has failed
LoadPositions_SkipsFailed(loc, positionsError) ==
  LET Retried(row) == IsOpenPosition(row, UserId) /\ row.id \notin window.failed IN
  IF positionsError
  THEN [Raised(loc, Err("Failed to fetch positions"), "serve") EXCEPT
          !.pc = "done", !.resp = ErrorResponse(Err("Failed to fetch positions"))]
  ELSE MonNext([loc EXCEPT !.positions = SelectSeq(orders, Retried),
                           !.idx = 0, !.results = <<>>])

\* LoadPositions leaving out the positions another running invocation has selected
LoadPositions_SkipsSelected(loc, positionsError) ==
  LET selected == { q \in Procs : /\ proc[q].action = "check_tp_sl"
                                  /\ proc[q].pc \notin {"idle", "done", "mon_settings", "mon_query"} }
      Free(row) == /\ IsOpenPosition(row, UserId)
                   /\ \A q \in selected :
                        \A i \in 1..Len(proc[q].positions) : proc[q].positions[i].id # row.id
  IN
  IF positionsError
  THEN [Raised(loc, Err("Failed to fetch positions"), "serve") EXCEPT
          !.pc = "done", !.resp = ErrorResponse(Err("Failed to fetch positions"))]
  ELSE MonNext([loc EXCEPT !.positions = SelectSeq(orders, Free),
                           !.idx = 0, !.results = <<>>])

\* lines 300-315: the positions are read and the loop starts
LoadPositions(loc, positionsError) ==
  IF positionsError
  THEN [Raised(loc, Err("Failed to fetch positions"), "serve") EXCEPT
          !.pc = "done", !.resp = ErrorResponse(Err("Failed to fetch positions"))]
  ELSE MonNext([loc EXCEPT !.positions = OpenPositions(UserId),
                           !.idx = 0, !.results = <<>>])

MON_Query(p) ==
  /\ proc[p].pc = "mon_query"
  /\ \E positionsError \in BOOLEAN : Set(p, LoadPositions(proc[p], positionsError))
  /\ UNCHANGED <<now, user_settings, orders, marketPrice, window>>

\* TriggerType testing the take profit before the stop loss
TriggerType_TakeProfitFirst(position, currentPrice) ==
  IF position.side = "BUY"
  THEN IF currentPrice >= position.take_profit_price[1] THEN "TAKE_PROFIT"
       ELSE IF currentPrice <= position.stop_loss_price[1] THEN "STOP_LOSS"
       ELSE ""
  ELSE IF currentPrice <= position.take_profit_price[1] THEN "TAKE_PROFIT"
       ELSE IF currentPrice >= position.stop_loss_price[1] THEN "STOP_LOSS"
       ELSE ""

\* lines 322-342: which exit the current price triggers, "" for none
TriggerType(position, currentPrice) ==
  IF position.side = "BUY"
  THEN IF currentPrice <= position.stop_loss_price[1] THEN "STOP_LOSS"
       ELSE IF currentPrice >= position.take_profit_price[1] THEN "TAKE_PROFIT"
       ELSE ""
  ELSE IF currentPrice >= position.stop_loss_price[1] THEN "STOP_LOSS"
       ELSE IF currentPrice <= position.take_profit_price[1] THEN "TAKE_PROFIT"
       ELSE ""

\* CloseSignal on the side of the position, without the bot
CloseSignal_SameSideNoBot(position, userId) ==
  [ symbol |-> position.symbol,
    side |-> position.side,
    quantity |-> position.filled_quantity,
    price |-> Null, type |-> "MARKET", timeInForce |-> Null, userId |-> userId,
    botId |-> Null,
    stopLossPercent |-> Null, takeProfitPercent |-> Null ]

\* lines 346-353: the closing request
CloseSignal(position, userId) ==
  [ symbol |-> position.symbol,
    side |-> IF position.side = "BUY" THEN "SELL" ELSE "BUY",
    quantity |-> position.filled_quantity,
    price |-> Null, type |-> "MARKET", timeInForce |-> Null, userId |-> userId,
    botId |-> position.bot_id,
    stopLossPercent |-> Null, takeProfitPercent |-> Null ]

\* lines 316-369 for one position: the ticker is read; a failed read is the
\* position's error outcome; a crossed level calls executeTrade
EvaluatePosition(loc, threw) ==
  LET position == loc.positions[loc.idx]
      currentPrice == parseFloat(ToDigits(marketPrice))
      triggerType == TriggerType(position, currentPrice)
  IN
  IF threw
  THEN MonNext([Raised(loc, Err("fetch failed"), "loop") EXCEPT !.results =
                  Append(@, [ position |-> position.id,
                              outcome |-> "error", error |-> Some(Err("fetch failed")),
                              triggerType |-> "", currentPrice |-> 0,
                              closeResult |-> Null ])])
  ELSE IF triggerType # ""
  THEN EnterTrade([loc EXCEPT !.triggerType = triggerType,
                              !.currentPrice = currentPrice],
                  CloseSignal(position, UserId))
  ELSE MonNext(loc)

MON_Price(p) ==
  /\ proc[p].pc = "mon_price"
  /\ \E threw \in BOOLEAN : Set(p, EvaluatePosition(proc[p], threw))
  /\ UNCHANGED <<now, user_settings, orders, marketPrice, window>>

\* -------------------------------------------------------- getAccountInfo --
\* Deno.serve dispatches action 'get_account_info'
StartInfo(p) ==
  /\ proc[p].pc \in {"idle", "done"}
  /\ Set(p, [IdleProc EXCEPT !.action = "get_account_info", !.pc = "info_settings",
                             !.n0 = Len(orders)])
  /\ UNCHANGED <<now, user_settings, orders, marketPrice, window>>

\* lines 379-397: the settings are read; without a row or without credentials
\* the call fails, else timestamp=... is signed
AccountGate(loc, settingsError) ==
  IF settingsError \/ user_settings = Null
  THEN Throw(loc, Err("User settings not found"))
  ELSE IF user_settings.binance_api_key = Null \/ user_settings.binance_secret_key = Null
  THEN Throw(loc, Err("Binance API credentials not configured"))
  ELSE LET queryString == << <<"timestamp", ToDigits(now)>> >> IN
       [loc EXCEPT !.pc = "info_fetch", !.userSettings = user_settings,
                   !.queryString = queryString,
                   !.signature = Some(createHmac(user_settings.binance_secret_key[1],
                                                 queryString))]

INFO_Settings(p) ==
  /\ proc[p].pc = "info_settings"
  /\ \E settingsError \in BOOLEAN : Set(p, AccountGate(proc[p], settingsError))
  /\ UNCHANGED <<now, user_settings, orders, marketPrice, window>>

\* the outcomes of GET /api/v3/account: the fetch rejects, a non-2xx response,
\* or the account data
AccountReplies ==
  { [threw |-> TRUE, ok |-> FALSE, status |-> 0],
    [threw |-> FALSE, ok |-> FALSE, status |-> 401],
    [threw |-> FALSE, ok |-> TRUE, status |-> 200] }

\* lines 399-414: the account is fetched and its JSON returned
AccountInfo(loc, reply) ==
  IF reply.threw
  THEN Throw(loc, Err("fetch failed"))
  ELSE IF ~reply.ok
  THEN Throw(loc, [message |-> "Binance API error", status |-> reply.status, body |-> ""])
  ELSE Return(loc, AccountResponse("balances"))

INFO_Fetch(p) ==
  /\ proc[p].pc = "info_fetch"
  /\ \E reply \in AccountReplies : Set(p, AccountInfo(proc[p], reply))
  /\ UNCHANGED <<now, user_settings, orders, marketPrice, window>>

\* lines 63-72: the default branch of the switch throws 'Invalid action'
InvalidAction(loc) == Throw(loc, Err("Invalid action"))

\* Deno.serve receives a request whose action is none of the three
StartInvalid(p) ==
  /\ proc[p].pc \in {"idle", "done"}
  /\ Set(p, InvalidAction([IdleProc EXCEPT !.action = "unknown", !.n0 = Len(orders)]))
  /\ UNCHANGED <<now, user_settings, orders, marketPrice, window>>

\* the market moves
MovePrice(prices) ==
  /\ \E price \in prices \ {marketPrice} : marketPrice' = price
  /\ window' = NoWindow
  /\ UNCHANGED <<now, user_settings, orders, proc>>

\* time passes
Tick ==
  /\ \E t \in Clock : t > now /\ now' = t
  /\ UNCHANGED <<user_settings, orders, marketPrice, proc, window>>

\* ------------------------------------------------------ specification ----
\* Spec: one caller of execute_trade; every query of the function can fail
Next ==
  \/ StartTrade("p1", Signals)
  \/ ET_Settings("p1")
  \/ ET_Count("p1", BOOLEAN)
  \/ ET_Submit("p1", GateShapes)
  \/ ET_Insert("p1", MaxOrders)
  \/ TP_Fetch("p1")
  \/ SL_Fetch("p1")
  \/ SaveSettings(DailyCaps, PositionCaps)
  \/ ToggleAutoTrading
  \/ ToggleAutoTPSL

Spec == Init /\ [][Next]_vars

\* SpecProtect: one caller of execute_trade with per-request percentages and
\* every shape of exchange answer; the daily count query answers
NextProtect ==
  \/ StartTrade("p1", ProtectSignals)
  \/ ET_Settings("p1")
  \/ ET_Count("p1", {FALSE})
  \/ ET_Submit("p1", AllShapes)
  \/ ET_Insert("p1", MaxOrders)
  \/ TP_Fetch("p1")
  \/ SL_Fetch("p1")
  \/ SaveSettings(DailyCaps, PositionCaps)
  \/ ToggleAutoTrading
  \/ ToggleAutoTPSL

SpecProtect == Init /\ [][NextProtect]_vars

\* SpecMon: market orders open positions, the price moves, and check_tp_sl runs
\* one after the other; the daily count query answers
NextMon ==
  \/ StartTrade("p1", MonSignals)
  \/ StartCheck("p1")
  \/ MON_Settings("p1")
  \/ MON_Query("p1")
  \/ MON_Price("p1")
  \/ ET_Settings("p1")
  \/ ET_Count("p1", {FALSE})
  \/ ET_Submit("p1", MonShapes)
  \/ ET_Insert("p1", MaxMonOrders)
  \/ TP_Fetch("p1")
  \/ SL_Fetch("p1")
  \/ StartInfo("p1")
  \/ INFO_Settings("p1")
  \/ INFO_Fetch("p1")
  \/ StartInvalid("p1")
  \/ MovePrice(TickerPrices)
  \/ SaveSettings(MonCaps, PositionCaps)
  \/ ToggleAutoTrading
  \/ ToggleAutoTPSL

SpecMon == Init /\ [][NextMon]_vars

\* SpecExit: positions of both sides are opened and check_tp_sl runs while
\* the price moves below, between and above their levels
NextExit ==
  \/ StartTrade("p1", ExitSignals)
  \/ StartCheck("p1")
  \/ MON_Settings("p1")
  \/ MON_Query("p1")
  \/ MON_Price("p1")
  \/ ET_Settings("p1")
  \/ ET_Count("p1", {FALSE})
  \/ ET_Submit("p1", ExitShapes)
  \/ ET_Insert("p1", MaxMonOrders)
  \/ TP_Fetch("p1")
  \/ SL_Fetch("p1")
  \/ MovePrice(ExitPrices)
  \/ SaveSettings(ExitCaps, PositionCaps)
  \/ ToggleAutoTrading
  \/ ToggleAutoTPSL

SpecExit == Init /\ [][NextExit]_vars

\* SpecWire: one caller of execute_trade with market and limit orders, while
\* time passes; the daily count query answers
NextWire ==
  \/ StartTrade("p1", WireSignals)
  \/ ET_Settings("p1")
  \/ ET_Count("p1", {FALSE})
  \/ ET_Submit("p1", WireShapes)
  \/ ET_Insert("p1", MaxOrders)
  \/ TP_Fetch("p1")
  \/ SL_Fetch("p1")
  \/ SaveSettings(DailyCaps, PositionCaps)
  \/ ToggleAutoTrading
  \/ ToggleAutoTPSL
  \/ Tick

SpecWire == Init /\ [][NextWire]_vars

\* SpecSize: one caller of execute_trade with market orders that carry no
\* price, for users with a zero, a positive and a negative position size
\* limit; the daily count query answers
NextSize ==
  \/ StartTrade("p1", SizeSignals)
  \/ ET_Settings("p1")
  \/ ET_Count("p1", {FALSE})
  \/ ET_Submit("p1", SizeShapes)
  \/ ET_Insert("p1", MaxOrders)
  \/ TP_Fetch("p1")
  \/ SL_Fetch("p1")
  \/ SaveSettings(DailyCaps, SizeLimits)
  \/ ToggleAutoTrading
  \/ ToggleAutoTPSL

SpecSize == Init /\ [][NextSize]_vars

\* SpecRace: the user configures the account and opens a position; then the
\* price moves and two invocations of check_tp_sl run concurrently for the
\* user, their steps interleaving at every await
NextRace ==
  \/ orders = <<>> /\ StartTrade("p1", RaceSignals)
  \/ \E p \in Procs : orders # <<>> /\ StartCheck(p)
  \/ \E p \in Procs : MON_Settings(p)
  \/ \E p \in Procs : MON_Query(p)
  \/ \E p \in Procs : MON_Price(p)
  \/ \E p \in Procs : ET_Settings(p)
  \/ \E p \in Procs : ET_Count(p, {FALSE})
  \/ \E p \in Procs : ET_Submit(p, RaceShapes)
  \/ \E p \in Procs : ET_Insert(p, MaxRaceOrders)
  \/ \E p \in Procs : TP_Fetch(p)
  \/ \E p \in Procs : SL_Fetch(p)
  \/ orders # <<>> /\ MovePrice({110})
  \/ orders = <<>> /\ SaveSettings(RaceCaps, PositionCaps)
  \/ orders = <<>> /\ ToggleAutoTrading
  \/ orders = <<>> /\ ToggleAutoTPSL

SpecRace == Init /\ [][NextRace]_vars

\* SpecDay: two callers of execute_trade run concurrently for one user, their
\* steps interleaving at every await; every query answers
NextDay ==
  \/ \E p \in Procs : StartTrade(p, RaceSignals)
  \/ \E p \in Procs : ET_Settings(p)
  \/ \E p \in Procs : ET_Count(p, {FALSE})
  \/ \E p \in Procs : ET_Submit(p, RaceShapes)
  \/ \E p \in Procs : ET_Insert(p, MaxRaceOrders)
  \/ \E p \in Procs : TP_Fetch(p)
  \/ \E p \in Procs : SL_Fetch(p)
  \/ SaveSettings(DailyCaps, PositionCaps)
  \/ ToggleAutoTrading
  \/ ToggleAutoTPSL

SpecDay == Init /\ [][NextDay]_vars

\* SpecGate: a position is opened, the price moves and check_tp_sl runs one
\* after the other while the user changes the settings; every query of the
\* closing executeTrade can fail
NextGate ==
  \/ StartTrade("p1", RaceSignals)
  \/ StartCheck("p1")
  \/ MON_Settings("p1")
  \/ MON_Query("p1")
  \/ MON_Price("p1")
  \/ ET_Settings("p1")
  \/ ET_Count("p1", BOOLEAN)
  \/ ET_Submit("p1", RaceShapes)
  \/ ET_Insert("p1", MaxMonOrders)
  \/ TP_Fetch("p1")
  \/ SL_Fetch("p1")
  \/ MovePrice(TickerPrices)
  \/ SaveSettings(DailyCaps, PositionCaps)
  \/ ToggleAutoTrading
  \/ ToggleAutoTPSL

SpecGate == Init /\ [][NextGate]_vars

\* SpecLedger: one caller of execute_trade against the orders table with its
\* CHECK constraints; every query answers and the exchange answers every way
NextLedger ==
  \/ StartTrade("p1", MonSignals)
  \/ ET_Settings("p1")
  \/ ET_Count("p1", {FALSE})
  \/ ET_Submit("p1", AllShapes)
  \/ ET_InsertChecked("p1", MaxOrders)
  \/ SaveSettings(DailyCaps, PositionCaps)
  \/ ToggleAutoTrading
  \/ ToggleAutoTPSL

SpecLedger == Init /\ [][NextLedger]_vars

\* -------------------------------------------------------------- claims ---
Has(trace, event) == \E i \in 1..Len(trace) : trace[i] = event

MessageOf(loc) == loc.resp.error[1].message

\* C1: an execute_trade request of a user whose settings row has
\* auto_trading_enabled = false ends in an error response; it signs nothing,
\* calls the exchange not once and writes no order row.
C1_DisabledTradingStopsRequest ==
  \A p \in Procs :
    LET loc == proc[p] IN
    (loc.action = "execute_trade" /\ loc.seen # Null
       /\ ~loc.seen.auto_trading_enabled)
    => /\ loc.pc = "done"
       /\ loc.resp.status = 500
       /\ loc.resp.error # Null
       /\ ~loc.readErr => MessageOf(loc) = "Auto trading is disabled for this user"
       /\ loc.trace = <<>>
       /\ Len(orders) = loc.n0

C1_Witness ==
  \E p \in Procs :
    LET loc == proc[p] IN
    /\ loc.action = "execute_trade" /\ loc.pc = "done"
    /\ loc.seen # Null /\ ~loc.seen.auto_trading_enabled
    /\ loc.seen.binance_api_key # Null
    /\ ~loc.readErr
    /\ MessageOf(loc) = "Auto trading is disabled for this user"

\* C2: an execute_trade request made when the user's count of today's orders
\* has reached max_daily_trades ends in the daily limit error, before anything
\* is signed or submitted.
C2_DailyLimitBeforeSigning ==
  \A p \in Procs :
    LET loc == proc[p] IN
    (loc.action = "execute_trade" /\ loc.dayCount # Null
       /\ loc.dayCount[1] >= loc.userSettings.max_daily_trades)
    => /\ loc.pc = "done"
       /\ loc.resp.status = 500
       /\ MessageOf(loc) = "Daily trade limit reached"
       /\ loc.trace = <<>>

\* C3: an execute_trade request that carries a price with
\* quantity * price > max_position_size never gets to the exchange or to the
\* orders table: it ends in an error, which is the position size error when
\* the request passed the settings gates and the daily limit.
C3_OversizedRequestRejected ==
  \A p \in Procs :
    LET loc == proc[p]
        signal == loc.signal
    IN
    (loc.action = "execute_trade" /\ loc.seen # Null /\ signal.price # Null
       /\ signal.quantity * signal.price[1] > loc.seen.max_position_size)
    => /\ loc.pc \in {"et_count", "done"}
       /\ loc.trace = <<>>
       /\ Len(orders) = loc.n0
       /\ loc.pc = "done" =>
            /\ loc.resp.status = 500
            /\ (loc.dayCount # Null
                  /\ (loc.tradesErr \/ loc.dayCount[1] < loc.seen.max_daily_trades))
               => MessageOf(loc) = "Trade size exceeds maximum position size"

C3_Witness ==
  \E p \in Procs :
    LET loc == proc[p] IN
    /\ loc.action = "execute_trade" /\ loc.pc = "done"
    /\ loc.userSettings # Null
    /\ loc.signal.quantity = 4 /\ loc.signal.price = Some(100)
    /\ loc.userSettings.max_position_size = 300
    /\ MessageOf(loc) = "Trade size exceeds maximum position size"

\* C4: when the exchange answers the primary order with a non-success status,
\* execute_trade ends in an error that carries that status and the body; no
\* order row is written and no protective order is sent.
C4_ExchangeRejectionSurfaced ==
  \A p \in Procs :
    LET loc == proc[p] IN
    (loc.action = "execute_trade" /\ loc.reply # Null
       /\ ~loc.reply[1].threw /\ ~loc.reply[1].ok)
    => /\ loc.pc = "done"
       /\ loc.resp.status = 500
       /\ loc.resp.error[1].status = loc.reply[1].status
       /\ loc.resp.error[1].body = loc.reply[1].body
       /\ loc.trace = <<"sign", "submit">>
       /\ loc.savedOrder = Null
       /\ Len(orders) = loc.n0

C4_Witness ==
  \E p \in Procs :
    LET loc == proc[p] IN
    /\ loc.action = "execute_trade" /\ loc.pc = "done"
    /\ loc.reply # Null /\ loc.reply[1].status = 400
    /\ loc.userSettings.auto_tp_sl_enabled
    /\ loc.resp.error[1].body = "rejected"

\* C5: when the exchange accepted the primary order and the insert into orders
\* fails, execute_trade ends in an error and makes no further call: nothing
\* cancels the accepted order, no protective order is sent, no row is written.
C5_FailedInsertNotCompensated ==
  \A p \in Procs :
    LET loc == proc[p] IN
    (loc.action = "execute_trade" /\ Has(loc.trace, "insert_failed"))
    => /\ loc.pc = "done"
       /\ loc.resp.status = 500
       /\ MessageOf(loc) = "Failed to save order to database"
       /\ loc.reply[1].ok
       /\ loc.trace = <<"sign", "submit", "insert_failed">>
       /\ Len(orders) = loc.n0

C5_Witness ==
  \E p \in Procs :
    LET loc == proc[p] IN
    /\ loc.action = "execute_trade" /\ loc.pc = "done"
    /\ Has(loc.trace, "insert_failed")
    /\ loc.binanceOrder[1].status = "FILLED"
    /\ Len(orders) < MaxOrders


\* the percentage a request field stands for: the field when it is given,
\* else the account default
Given(field, default) == IF field # Null THEN field[1] ELSE default

\* the same, a field of 0 counting as not given
GivenNonZero(field, default) ==
  IF field # Null /\ field[1] # 0 THEN field[1] ELSE default

\* stopLossPrice = P * (1 -/+ slPct/100) and takeProfitPrice = P * (1 +/- tpPct/100),
\* stated without division
LevelsAre(loc, slPct, tpPct) ==
  LET P == parseFloat(loc.binanceOrder[1].fills[1].price) IN
  /\ loc.stopLossPrice # Null
  /\ loc.takeProfitPrice # Null
  /\ IF loc.signal.side = "BUY"
     THEN /\ 100 * loc.stopLossPrice[1] = P * (100 - slPct)
          /\ 100 * loc.takeProfitPrice[1] = P * (100 + tpPct)
     ELSE /\ 100 * loc.stopLossPrice[1] = P * (100 + slPct)
          /\ 100 * loc.takeProfitPrice[1] = P * (100 - tpPct)

\* an accepted order with at least one fill, for a user with auto TP/SL on
FilledWithProtection(loc) ==
  /\ loc.binanceOrder # Null
  /\ loc.userSettings.auto_tp_sl_enabled
  /\ Len(loc.binanceOrder[1].fills) > 0

\* C6 as stated: with auto TP/SL on and at least one fill, the levels are
\* computed from the first fill's price with the request's percentages if they
\* are given, else the account defaults.
C6_LevelsFromGivenPercentages ==
  \A p \in Procs :
    LET loc == proc[p] IN
    FilledWithProtection(loc)
    => LevelsAre(loc,
                 Given(loc.signal.stopLossPercent, loc.userSettings.default_stop_loss_percent),
                 Given(loc.signal.takeProfitPercent, loc.userSettings.default_take_profit_percent))

\* C6 amended: the request's percentages are used if they are given and are not
\* 0, else the account defaults.
C6_LevelsFromNonZeroPercentages ==
  \A p \in Procs :
    LET loc == proc[p] IN
    FilledWithProtection(loc)
    => LevelsAre(loc,
                 GivenNonZero(loc.signal.stopLossPercent,
                              loc.userSettings.default_stop_loss_percent),
                 GivenNonZero(loc.signal.takeProfitPercent,
                              loc.userSettings.default_take_profit_percent))

C6_Witness ==
  \E p \in Procs :
    LET loc == proc[p] IN
    /\ FilledWithProtection(loc)
    /\ loc.signal.side = "SELL"
    /\ loc.signal.stopLossPercent = Some(20)
    /\ loc.signal.takeProfitPercent = Some(100)
    /\ loc.binanceOrder[1].fills[1].price = <<2, 0, 0>>
    /\ loc.stopLossPrice = Some(240)
    /\ loc.takeProfitPrice = Some(0)

\* C7: in every row written by execute_trade stop_loss_price and
\* take_profit_price are both null or both set; they are null when the response
\* had no fills or auto TP/SL is off; auto_tp_sl_enabled is the user's setting
\* as the request read it.
C7_LevelsBothOrNeither ==
  /\ \A i \in 1..Len(orders) :
       (orders[i].stop_loss_price = Null) <=> (orders[i].take_profit_price = Null)
  /\ \A p \in Procs :
       LET loc == proc[p] IN
       loc.savedOrder # Null
       => LET row == loc.savedOrder[1] IN
          /\ orders[row.id] = row
          /\ row.auto_tp_sl_enabled = loc.userSettings.auto_tp_sl_enabled
          /\ (Len(loc.binanceOrder[1].fills) = 0 \/ ~loc.userSettings.auto_tp_sl_enabled)
             => (row.stop_loss_price = Null /\ row.take_profit_price = Null)

C7_Witness ==
  \E p \in Procs :
    LET loc == proc[p] IN
    /\ loc.savedOrder # Null
    /\ loc.userSettings.auto_tp_sl_enabled
    /\ loc.binanceOrder[1].status = "FILLED"
    /\ Len(loc.binanceOrder[1].fills) = 0
    /\ orders[1].auto_tp_sl_enabled
    /\ orders[1].stop_loss_price = Null

\* placeTPSLOrders was entered by this call of executeTrade
PlacerInvoked(loc) == Has(loc.trace, "tp")

C9_PlacerFailureSwallowed ==
  \A p \in Procs :
    LET loc == proc[p] IN
    (loc.action = "execute_trade" /\ Has(loc.trace, "tpsl_error"))
    => /\ loc.pc = "done"
       /\ loc.resp.status = 200
       /\ loc.resp.success
       /\ loc.resp.error = Null
       /\ loc.savedOrder # Null
       /\ loc.resp.order = loc.savedOrder
       /\ orders[loc.savedOrder[1].id] = loc.savedOrder[1]

C9_Witness ==
  \E p \in Procs :
    LET loc == proc[p] IN
    /\ loc.action = "execute_trade" /\ loc.pc = "done"
    /\ loc.trace = <<"sign", "submit", "insert", "tp", "tpsl_error">>
    /\ loc.resp.order = Some(orders[1])

\* C10: over two check_tp_sl runs in succession, with no price movement and no
\* other writer in between, a position that a run has closed is not selected
\* again and no second closing trade is started for it.
C10_ClosedPositionNotSelectedAgain ==
  \A p \in Procs :
    LET loc == proc[p] IN
    (loc.action = "check_tp_sl" /\ window.runs <= 2)
    => /\ loc.pc = "mon_price"
          => \A i \in loc.idx..Len(loc.positions) : loc.positions[i].id \notin window.closed
       /\ loc.pc \in {"et_settings", "et_count", "et_submit", "et_insert"}
          => loc.positions[loc.idx].id \notin window.closed


\* the body of request r ends with the signature parameter, whose value is
\* the HMAC-SHA256 under secret of exactly the parameters before it
SignedLast(r, secret) ==
  LET n == Len(r.body) IN
  /\ n >= 2
  /\ r.body[n][1] = "signature"
  /\ r.body[n][2] = createHmac(secret, SubSeq(r.body, 1, n - 1))
  /\ \A i \in 1..(n - 1) : r.body[i][1] # "signature"

\* the API key of request r is a header and no body parameter
KeyOnlyInHeader(r, apiKey) ==
  /\ \E i \in 1..Len(r.headers) : r.headers[i] = <<"X-MBX-APIKEY", apiKey>>
  /\ \A i \in 1..Len(r.body) :
       r.body[i][1] \in {"symbol", "side", "type", "quantity", "price", "stopPrice",
                         "timeInForce", "timestamp", "signature"}

\* C11: every order request execute_trade sends carries, as its last body
\* parameter, the HMAC-SHA256 under the user's secret key of exactly the body
\* text before that parameter, and carries the API key as a header only.
C11_SignatureOverSentBody ==
  \A p \in Procs :
    LET loc == proc[p] IN
    \A k \in 1..Len(loc.wire) :
      /\ SignedLast(loc.wire[k], loc.userSettings.binance_secret_key[1])
      /\ KeyOnlyInHeader(loc.wire[k], loc.userSettings.binance_api_key[1])
      /\ loc.wire[k].method = "POST"

C11_Witness ==
  \E p \in Procs :
    LET loc == proc[p] IN
    /\ Len(loc.wire) = 3
    /\ loc.wire[1].body[5] = <<"timestamp", <<1, 0, 0, 0>>>>
    /\ loc.wire[3].body[6] = <<"timestamp", <<2, 0, 0, 0>>>>
    /\ loc.wire[3].body[7][2].key = "secret-key"


\* a run of check_tp_sl that has ended with the informational response, having
\* loaded no position, read no price, sent no request and written no row
EndedAsNoOp(loc, rows) ==
  /\ loc.pc = "done"
  /\ loc.resp = InfoResponse("Auto TP/SL not enabled")
  /\ loc.resp.status = 200 /\ loc.resp.results = <<>>
  /\ loc.positions = <<>> /\ loc.idx = 0 /\ loc.results = <<>>
  /\ loc.currentPrice = 0
  /\ loc.wire = <<>> /\ loc.trace = <<>>
  /\ Len(rows) = loc.n0

\* C12: a check_tp_sl call that reads the settings of a user who has no
\* settings row, or whose auto_tp_sl_enabled is false, ends there with the
\* informational response and no outcomes: it reads no price, sends no order
\* and writes no order row.
C12_DisabledProtectionIsNoOp ==
  [][ \A p \in Procs :
        ( /\ proc[p].action = "check_tp_sl"
          /\ proc[p].pc = "mon_settings"
          /\ proc'[p] # proc[p]
          /\ (user_settings = Null \/ ~user_settings.auto_tp_sl_enabled) )
        => /\ EndedAsNoOp(proc'[p], orders')
           /\ orders' = orders ]_vars

\* such a run has ended while a position with a crossed level was waiting
C12_Witness ==
  \E p \in Procs :
    /\ EndedAsNoOp(proc[p], orders)
    /\ proc[p].action = "check_tp_sl"
    /\ user_settings # Null /\ ~user_settings.auto_tp_sl_enabled
    /\ user_settings.auto_trading_enabled
    /\ Len(OpenPositions(UserId)) = 1
    /\ TriggerType(OpenPositions(UserId)[1], marketPrice) # ""


\* the invocation ended in the JSON error response for the error with message msg
EndedInError(loc, msg) ==
  /\ loc.resp.status = 500
  /\ loc.resp.error # Null
  /\ loc.resp.error[1].message = msg
  /\ ~loc.resp.success
  /\ loc.resp.order = Null /\ loc.resp.account = Null /\ loc.resp.results = <<>>

\* C13 as stated: an invocation in which an error was raised ends in a JSON
\* error response with a message and a non-success status, never in a
\* success response.
C13_EveryErrorEndsInErrorResponse ==
  \A p \in Procs :
    LET loc == proc[p] IN
    (loc.pc = "done" /\ loc.faults # <<>>)
    => /\ loc.resp.status # 200
       /\ loc.resp.error # Null
       /\ ~loc.resp.success

\* the errors of an invocation that no catch inside the handlers took
Escaping(loc) == { i \in 1..Len(loc.faults) : loc.faults[i].caught = "serve" }

\* C13 amended: an error that reaches the invocation boundary (any error but a
\* failure while the protective orders are placed, which execute_trade
\* swallows, and a failure on one position, which check_tp_sl records as that
\* position's outcome) ends the invocation in the JSON error response with
\* that error's message and status 500, and so does an unrecognized action;
\* an invocation without such an error answers with status 200 and no error.
C13_EscapingErrorEndsInErrorResponse ==
  \A p \in Procs :
    LET loc == proc[p] IN
    /\ loc.pc \in { "idle", "done", "et_settings", "et_count", "et_submit", "et_insert",
                    "tp_fetch", "sl_fetch", "mon_settings", "mon_query", "mon_price",
                    "info_settings", "info_fetch" }
    /\ Escaping(loc) # {} => loc.pc = "done"
    /\ loc.pc = "done" =>
         /\ Escaping(loc) # {} =>
              /\ Escaping(loc) = {Len(loc.faults)}
              /\ EndedInError(loc, loc.faults[Len(loc.faults)].message)
         /\ Escaping(loc) = {} => (loc.resp.status = 200 /\ loc.resp.error = Null)
         /\ loc.action = "unknown" => EndedInError(loc, "Invalid action")

C13_Witness ==
  \E p \in Procs :
    LET loc == proc[p] IN
    /\ loc.action = "get_account_info" /\ loc.pc = "done"
    /\ loc.faults = << [message |-> "Binance API error", caught |-> "serve"] >>
    /\ loc.resp.error[1].status = 401
    /\ EndedInError(loc, "Binance API error")


\* C14: the auto_tp_sl_enabled of an order row is the user's setting as the
\* execute_trade that wrote the row read it, and no step of the core (a later
\* execute_trade, a check_tp_sl run, the user toggling or saving the settings)
\* changes or removes an existing row.
C14_RowsAreNeverRewritten ==
  [][ /\ Len(orders') >= Len(orders)
      /\ \A i \in 1..Len(orders) : orders'[i] = orders[i]
      /\ Len(orders') > Len(orders) =>
           /\ Len(orders') = Len(orders) + 1
           /\ \E p \in Procs :
                /\ proc[p].pc = "et_insert"
                /\ proc'[p].savedOrder = Some(orders'[Len(orders')])
                /\ orders'[Len(orders')].auto_tp_sl_enabled
                     = proc[p].userSettings.auto_tp_sl_enabled ]_vars

\* a row written with protection on is still so after the user has turned the
\* setting off and a later trade has written its own row
C14_Witness ==
  /\ Len(orders) = 2
  /\ orders[1].auto_tp_sl_enabled
  /\ orders[1].stop_loss_price = Some(95)
  /\ user_settings # Null /\ ~user_settings.auto_tp_sl_enabled
  /\ \E p \in Procs : proc[p].action = "check_tp_sl" /\ proc[p].pc = "done"


\* C15: in every run of placeTPSLOrders both the take-profit order and the
\* stop-loss order are attempted, whatever happened to the first.
C15_BothLegsAttempted ==
  \A p \in Procs :
    LET loc == proc[p] IN
    (loc.action = "execute_trade" /\ loc.pc = "done" /\ Has(loc.trace, "tp"))
    => Has(loc.trace, "sl")


\* the names of the body parameters of request r, in the order sent
Names(r) == [i \in 1..Len(r.body) |-> r.body[i][1]]

\* the value of the body parameter of request r called name
Param(r, name) ==
  r.body[CHOOSE i \in 1..Len(r.body) : r.body[i][1] = name][2]

Opposite(side) == IF side = "BUY" THEN "SELL" ELSE "BUY"

\* C16: the take-profit order is a LIMIT order at takeProfitPrice with time in
\* force GTC, the stop-loss order a STOP_MARKET order with stopPrice =
\* stopLossPrice; both are on the side opposite to the original order and for
\* its executed quantity.
C16_ProtectiveLegParameters ==
  \A p \in Procs :
    LET loc == proc[p] IN
    /\ Len(loc.wire) <= 3
    /\ Len(loc.wire) >= 2 =>
         LET tp == loc.wire[2]
             original == loc.binanceOrder[1]
         IN /\ Names(tp) = << "symbol", "side", "type", "quantity", "price",
                              "timeInForce", "timestamp", "signature" >>
            /\ Param(tp, "symbol") = original.symbol
            /\ Param(tp, "side") = Opposite(original.side)
            /\ Param(tp, "type") = "LIMIT"
            /\ Param(tp, "quantity") = original.executedQty
            /\ parseFloat(Param(tp, "price")) = loc.takeProfitPrice[1]
            /\ Param(tp, "timeInForce") = "GTC"
    /\ Len(loc.wire) = 3 =>
         LET sl == loc.wire[3]
             original == loc.binanceOrder[1]
         IN /\ Names(sl) = << "symbol", "side", "type", "quantity", "stopPrice",
                              "timestamp", "signature" >>
            /\ Param(sl, "symbol") = original.symbol
            /\ Param(sl, "side") = Opposite(original.side)
            /\ Param(sl, "type") = "STOP_MARKET"
            /\ Param(sl, "quantity") = original.executedQty
            /\ parseFloat(Param(sl, "stopPrice")) = loc.stopLossPrice[1]

C16_Witness ==
  \E p \in Procs :
    LET loc == proc[p] IN
    /\ Len(loc.wire) = 3
    /\ loc.binanceOrder[1].side = "SELL"
    /\ loc.binanceOrder[1].executedQty = <<4>>
    /\ Param(loc.wire[2], "side") = "BUY"
    /\ Param(loc.wire[2], "price") = <<9, 0>>
    /\ Param(loc.wire[3], "stopPrice") = <<1, 0, 5>>
    /\ Param(loc.wire[3], "quantity") = <<4>>


\* whether the stop loss, and whether the take profit, of a position of the
\* given side is crossed at price
StopLossHit(side, price, stopLoss) ==
  (side = "BUY" /\ price <= stopLoss) \/ (side # "BUY" /\ price >= stopLoss)
TakeProfitHit(side, price, takeProfit) ==
  (side = "BUY" /\ price >= takeProfit) \/ (side # "BUY" /\ price <= takeProfit)

\* C17: the step of check_tp_sl that reads the price for a position triggers
\* STOP_LOSS when the stop loss is crossed (BUY: price <= stopLoss, SELL:
\* price >= stopLoss), otherwise TAKE_PROFIT when the take profit is crossed
\* (BUY: price >= takeProfit, SELL: price <= takeProfit), otherwise nothing;
\* a position gets at most one outcome in a run.
C17_StopLossBeforeTakeProfit ==
  [][ \A p \in Procs :
        ( /\ proc[p].action = "check_tp_sl"
          /\ proc[p].pc = "mon_price"
          /\ proc'[p] # proc[p]
          /\ proc'[p].faults = proc[p].faults )
        => LET position == proc[p].positions[proc[p].idx]
               sl == StopLossHit(position.side, marketPrice, position.stop_loss_price[1])
               tp == TakeProfitHit(position.side, marketPrice, position.take_profit_price[1])
               after == proc'[p]
           IN /\ sl => (after.pc = "et_settings" /\ after.triggerType = "STOP_LOSS")
              /\ (~sl /\ tp) => (after.pc = "et_settings" /\ after.triggerType = "TAKE_PROFIT")
              /\ (~sl /\ ~tp) => (after.pc \in {"mon_price", "done"}
                                    /\ after.results = proc[p].results)
              /\ after.pc = "et_settings" => after.currentPrice = marketPrice
              /\ \A i, j \in 1..Len(after.results) :
                   after.results[i].position = after.results[j].position => i = j ]_vars

\* a closing trade was triggered as STOP_LOSS for a BUY position whose take
\* profit was crossed by the same price
C17_Witness ==
  \E p \in Procs :
    LET loc == proc[p] IN
    /\ loc.action = "check_tp_sl" /\ loc.pc = "et_settings"
    /\ loc.positions[loc.idx].side = "BUY"
    /\ loc.currentPrice = 90
    /\ loc.positions[loc.idx].stop_loss_price = Some(95)
    /\ loc.positions[loc.idx].take_profit_price = Some(90)
    /\ loc.triggerType = "STOP_LOSS"


\* the positions of the handler inside a call of executeTrade
InTrade == {"et_settings", "et_count", "et_submit", "et_insert", "tp_fetch", "sl_fetch"}

\* request or row x closes position: a MARKET order on the opposite side for
\* the position's filled quantity
Closes(x, position) ==
  /\ x.type = "MARKET"
  /\ x.side = Opposite(position.side)
  /\ x.quantity = position.filled_quantity
  /\ x.symbol = position.symbol

\* C18: every closing request check_tp_sl makes is a MARKET order on the side
\* opposite to the position's, for the position's filled_quantity, with the
\* user id and the bot id of the position; it goes through executeTrade like
\* any request: it is sent as the primary order of that call and its row is
\* what the outcome reports.
C18_ClosingRequestMirrorsPosition ==
  \A p \in Procs :
    LET loc == proc[p] IN
    loc.action = "check_tp_sl"
    => /\ loc.pc \in InTrade =>
            LET position == loc.positions[loc.idx] IN
            /\ Closes(loc.signal, position)
            /\ loc.signal.userId = position.user_id
            /\ loc.signal.botId = position.bot_id
            /\ loc.signal.price = Null
            /\ loc.wire # <<>> =>
                 /\ Names(loc.wire[1]) = << "symbol", "side", "type", "quantity",
                                            "timestamp", "signature" >>
                 /\ Param(loc.wire[1], "side") = Opposite(position.side)
                 /\ Param(loc.wire[1], "type") = "MARKET"
                 /\ parseFloat(Param(loc.wire[1], "quantity")) = position.filled_quantity
       /\ \A k \in 1..Len(loc.results) :
            loc.results[k].outcome = "closed" =>
              LET position == orders[loc.results[k].position]
                  row == orders[loc.results[k].closeResult[1]]
              IN /\ Closes(row, position)
                 /\ row.user_id = position.user_id
                 /\ row.bot_id = position.bot_id
                 /\ row.id > position.id

C18_Witness ==
  \E p \in Procs :
    LET loc == proc[p] IN
    /\ loc.action = "check_tp_sl" /\ loc.pc = "done"
    /\ Len(loc.results) = 1
    /\ loc.results[1].outcome = "closed"
    /\ loc.results[1].triggerType = "TAKE_PROFIT"
    /\ orders[1].side = "BUY" /\ orders[1].bot_id = Some("bot-1")
    /\ orders[2].side = "SELL" /\ orders[2].bot_id = Some("bot-1")
    /\ orders[2].quantity = 2


\* the error outcomes of a run, and the errors its position loop caught
ErrorOutcomes(loc) ==
  LET IsError(r) == r.outcome = "error" IN SelectSeq(loc.results, IsError)
LoopFaults(loc) ==
  LET InLoop(f) == f.caught = "loop" IN SelectSeq(loc.faults, InLoop)

\* C19: in a check_tp_sl run a failure while one position is processed (the
\* price read, or the closing executeTrade) becomes that position's error
\* outcome with the error's message; it does not end the run: every selected
\* position is still visited and the run answers 200 with the outcomes.
C19_PositionFailuresAreIsolated ==
  \A p \in Procs :
    LET loc == proc[p] IN
    (loc.action = "check_tp_sl" /\ loc.pc \notin {"mon_settings", "mon_query"})
    => /\ Len(ErrorOutcomes(loc)) = Len(LoopFaults(loc))
       /\ \A k \in 1..Len(LoopFaults(loc)) :
            /\ ErrorOutcomes(loc)[k].error[1].message = LoopFaults(loc)[k].message
            /\ \E i \in 1..loc.idx : ErrorOutcomes(loc)[k].position = loc.positions[i].id
       /\ LoopFaults(loc) # <<>> => Escaping(loc) = {}
       /\ (loc.pc = "done" /\ Escaping(loc) = {} /\ loc.resp.message = "") =>
            /\ loc.idx = Len(loc.positions)
            /\ loc.resp.status = 200
            /\ loc.resp.results = loc.results

\* the first of two positions failed on its price read, the second was still
\* processed and has its own outcome
C19_Witness ==
  \E p \in Procs :
    LET loc == proc[p] IN
    /\ loc.action = "check_tp_sl" /\ loc.pc = "done"
    /\ Len(loc.positions) = 2
    /\ Len(loc.resp.results) = 2
    /\ loc.resp.results[1].position = loc.positions[1].id
    /\ loc.resp.results[1].error[1].message = "fetch failed"
    /\ loc.resp.results[2].position = loc.positions[2].id
    /\ loc.resp.results[2].error[1].message = "Daily trade limit reached"


\* C20: a LIMIT request with a price that passes the limits is signed and
\* submitted with the parameters symbol, side, type, quantity, price,
\* timeInForce (GTC when the request gives none), timestamp, and the signature
\* after them.
C20_LimitOrderCarriesPriceAndTimeInForce ==
  \A p \in Procs :
    LET loc == proc[p] IN
    ( /\ loc.action = "execute_trade"
      /\ loc.signal.type = "LIMIT" /\ Truthy(loc.signal.price)
      /\ loc.dayCount # Null
      /\ loc.dayCount[1] < loc.userSettings.max_daily_trades
      /\ ~ExceedsPositionSize(loc.signal, loc.userSettings) )
    => /\ Has(loc.trace, "sign")
       /\ loc.pc = "done" => loc.wire # <<>>
       /\ loc.wire # <<>> =>
            /\ Names(loc.wire[1]) = << "symbol", "side", "type", "quantity", "price",
                                       "timeInForce", "timestamp", "signature" >>
            /\ parseFloat(Param(loc.wire[1], "price")) = loc.signal.price[1]
            /\ Param(loc.wire[1], "timeInForce")
                 = (IF loc.signal.timeInForce # Null THEN loc.signal.timeInForce[1] ELSE "GTC")


\* a MARKET request without a price that got as far as the position size check
PricelessAtSizeCheck(loc) ==
  /\ loc.action = "execute_trade"
  /\ loc.signal.type = "MARKET" /\ loc.signal.price = Null
  /\ loc.dayCount # Null
  /\ (loc.tradesErr \/ loc.dayCount[1] < loc.userSettings.max_daily_trades)

\* C21 as stated: a MARKET request without a price passes the position size
\* check (it is signed, and never ends in the position size error), whatever
\* its quantity and whatever max_position_size is.
C21_PricelessMarketPassesSizeCheck ==
  \A p \in Procs :
    LET loc == proc[p] IN
    PricelessAtSizeCheck(loc) => Has(loc.trace, "sign")

\* C21 amended: it passes whatever its quantity is and whatever
\* max_position_size is, as long as max_position_size is not negative; its
\* notional is taken as 0.
C21_PricelessMarketPassesNonNegativeLimit ==
  \A p \in Procs :
    LET loc == proc[p] IN
    PricelessAtSizeCheck(loc)
    => /\ TradeValue(loc.signal) = 0
       /\ loc.userSettings.max_position_size >= 0
            => /\ Has(loc.trace, "sign")
               /\ loc.pc = "done" /\ loc.resp.error # Null
                    => MessageOf(loc) # "Trade size exceeds maximum position size"
       /\ loc.userSettings.max_position_size < 0
            => /\ loc.pc = "done" /\ loc.trace = <<>>
               /\ MessageOf(loc) = "Trade size exceeds maximum position size"

\* a request for 4 units passed a limit of 0 and was filled at 200
C21_Witness ==
  \E p \in Procs :
    LET loc == proc[p] IN
    /\ PricelessAtSizeCheck(loc)
    /\ loc.signal.quantity = 4
    /\ loc.userSettings.max_position_size = 0
    /\ loc.savedOrder # Null
    /\ loc.savedOrder[1].filled_quantity = 4
    /\ loc.savedOrder[1].avg_fill_price = Some(200)

\* invocation p is inside the closing executeTrade for the position with this
\* id and has submitted the closing order
ClosingSubmitted(p, id) ==
  /\ proc[p].action = "check_tp_sl"
  /\ proc[p].pc \in InTrade
  /\ proc[p].positions[proc[p].idx].id = id
  /\ Has(proc[p].trace, "submit")
  /\ Closes(proc[p].signal, orders[id])

\* C22: there is no mutual exclusion per user or per position: the positions
\* query of a check_tp_sl invocation returns every open position of the user,
\* those another running invocation has selected or is closing included, and
\* an invocation closes a selected position whose level is crossed whatever
\* the other invocation does; so two invocations can both submit a closing
\* order for one position.
C22_NoMutualExclusion ==
  [][ \A p \in Procs :
        /\ (proc[p].pc = "mon_query" /\ proc'[p].pc \in {"mon_price", "et_settings"})
           => proc'[p].positions = OpenPositions(UserId)
        /\ (proc[p].pc = "mon_price" /\ proc'[p] # proc[p]
              /\ proc'[p].faults = proc[p].faults
              /\ TriggerType(proc[p].positions[proc[p].idx], marketPrice) # "")
           => /\ proc'[p].pc = "et_settings"
              /\ proc'[p].signal = CloseSignal(proc[p].positions[proc[p].idx], UserId) ]_vars

\* both invocations have submitted a closing order for the position of row 1
C22_Witness ==
  /\ ClosingSubmitted("p1", 1)
  /\ ClosingSubmitted("p2", 1)
  /\ proc["p1"].pc = "et_insert" /\ proc["p2"].pc = "et_insert"
  /\ Len(orders) = 1

\* a run of check_tp_sl whose positions query has answered
PastQuery(loc) ==
  /\ loc.action = "check_tp_sl"
  /\ \/ loc.pc \in {"mon_price"} \cup InTrade
     \/ loc.pc = "done" /\ loc.resp.status = 200 /\ loc.resp.message = ""

\* C23: a position whose closing trade failed is the same open row as before
\* (there is no failed or triggered state); every run that queries the
\* positions afterwards selects it again, and a run started since the price
\* last moved, with the level crossed at that price, does not pass it over:
\* it records an outcome for it, made by a closing request for that position.
C23_FailedClosingIsRetried ==
  /\ \A i \in window.failed : IsOpenPosition(orders[i], UserId)
  /\ \A p \in Procs :
       LET loc == proc[p] IN
       PastQuery(loc) =>
         \A i \in window.failed :
           \E k \in 1..Len(loc.positions) :
             /\ loc.positions[k] = orders[i]
             /\ ( /\ window.runs >= 1
                  /\ TriggerType(orders[i], marketPrice) # ""
                  /\ (k < loc.idx \/ loc.pc = "done") )
                => \E r \in 1..Len(loc.results) : loc.results[r].position = i
             /\ (k = loc.idx /\ loc.pc \in InTrade) =>
                  /\ Closes(loc.signal, orders[i])
                  /\ loc.triggerType = TriggerType(orders[i], loc.currentPrice)

\* the closing trade of the position of row 1 has failed, no run has closed
\* anything, and the third run since has submitted the closing order again
C23_Witness ==
  \E p \in Procs :
    LET loc == proc[p] IN
    /\ window.failed = {1} /\ window.closed = {} /\ window.runs = 3
    /\ loc.action = "check_tp_sl" /\ loc.pc = "et_insert"
    /\ loc.positions[loc.idx].id = 1
    /\ loc.faults = <<>>
    /\ Has(loc.trace, "submit")

\* C24: the number of order rows of the user created within the day never
\* exceeds max_daily_trades, under any interleaving of concurrent
\* execute_trade invocations.
C24_DailyCapUnderConcurrency ==
  user_settings # Null
  => Cardinality(TodayTrades(UserId)) <= user_settings.max_daily_trades

\* C25: execute_trade submits an order only after the count query has
\* answered with a count below max_daily_trades; when the count query returns
\* an error, nothing is submitted.
C25_SubmitOnlyAfterCount ==
  \A p \in Procs :
    LET loc == proc[p] IN
    (loc.action = "execute_trade" /\ Has(loc.trace, "submit"))
    => /\ ~loc.tradesErr
       /\ loc.dayCount # Null
       /\ loc.dayCount[1] < loc.userSettings.max_daily_trades

\* the closing executeTrade of a check_tp_sl run has read settings, or a count
\* of today's orders, that one of the gates refuses
GateClosed(loc) ==
  /\ loc.action = "check_tp_sl"
  /\ loc.signal # NoSignal
  /\ loc.seen # Null
  /\ \/ ~loc.seen.auto_trading_enabled
     \/ loc.seen.binance_api_key = Null
     \/ loc.seen.binance_secret_key = Null
     \/ loc.dayCount # Null /\ loc.dayCount[1] >= loc.seen.max_daily_trades

\* C26: when auto-trading is disabled, credentials are missing or the daily
\* trade cap is reached, the step of the closing executeTrade that reads the
\* setting or the count ends the call: the closing order is not signed or
\* submitted, the position's outcome is an error entry, and the position
\* stays open.
C26_GatesApplyToClosingTrades ==
  [][ \A p \in Procs :
        ( /\ proc[p].pc \in {"et_settings", "et_count"}
          /\ proc'[p] # proc[p]
          /\ GateClosed(proc'[p]) )
        => LET position == proc[p].positions[proc[p].idx]
               after == proc'[p]
           IN /\ after.pc \notin InTrade
              /\ after.trace = <<>> /\ after.wire = <<>>
              /\ Len(after.results) = Len(proc[p].results) + 1
              /\ after.results[Len(after.results)].position = position.id
              /\ after.results[Len(after.results)].outcome = "error"
              /\ after.results[Len(after.results)].closeResult = Null
              /\ orders' = orders
              /\ IsOpenPosition(orders'[position.id], UserId) ]_vars

\* the rows the check_tp_sl run of invocation p reports as closing trades
ClosingRows(p) ==
  { proc[p].results[r].closeResult[1] :
      r \in { r \in 1..Len(proc[p].results) : proc[p].results[r].outcome = "closed" } }

\* C27: a row written for a closing trade by a check_tp_sl run is not among
\* the positions any run selects, and no closing trade is started for it.
C27_ClosingRowIsNoPosition ==
  \A p, q \in Procs :
    proc[q].action = "check_tp_sl"
    => \A k \in 1..Len(proc[q].positions) :
         proc[q].positions[k].id \notin ClosingRows(p)

\* the places of event in trace
At(trace, event) == { i \in 1..Len(trace) : trace[i] = event }

\* every occurrence of event a in trace comes before every occurrence of b
Before(trace, a, b) == \A i \in At(trace, a), j \in At(trace, b) : i < j

\* C28: in one execute_trade invocation the primary order is submitted at
\* most once, before the insert, and the insert comes before the protective
\* orders, which are sent only after a stored row; when the insert fails the
\* invocation ends there: one request was sent, the order exists on the
\* exchange, no row was written and no protective order was sent.
C28_SubmitInsertProtectInOrder ==
  \A p \in Procs :
    LET loc == proc[p]
        t == loc.trace
    IN
    loc.action = "execute_trade"
    => /\ Cardinality(At(t, "submit")) <= 1
       /\ Cardinality(At(t, "insert") \cup At(t, "insert_failed")) <= 1
       /\ Before(t, "submit", "insert") /\ Before(t, "submit", "insert_failed")
       /\ Before(t, "insert", "tp") /\ Before(t, "tp", "sl")
       /\ (Has(t, "insert") \/ Has(t, "insert_failed")) => Has(t, "submit")
       /\ (Has(t, "tp") \/ Has(t, "sl")) => (Has(t, "insert") /\ loc.savedOrder # Null)
       /\ Len(loc.wire) = Cardinality(At(t, "submit") \cup At(t, "tp") \cup At(t, "sl"))
       /\ \A k \in 2..Len(loc.wire) :
            Param(loc.wire[k], "type") \in {"LIMIT", "STOP_MARKET"}
       /\ Has(t, "insert_failed") =>
            /\ loc.pc = "done"
            /\ t = <<"sign", "submit", "insert_failed">>
            /\ Len(loc.wire) = 1
            /\ loc.reply[1].ok /\ loc.binanceOrder # Null
            /\ loc.savedOrder = Null
            /\ Len(orders) = loc.n0

\* a FILLED order with protective prices, for a user with auto TP/SL on, whose
\* insert failed although the table had room
C28_Witness ==
  \E p \in Procs :
    LET loc == proc[p] IN
    /\ loc.action = "execute_trade" /\ loc.pc = "done"
    /\ Has(loc.trace, "insert_failed")
    /\ PlacesProtection(loc.userSettings, loc.binanceOrder[1],
                        loc.stopLossPrice, loc.takeProfitPrice)
    /\ loc.binanceOrder[1].executedQty = <<4>>
    /\ orders = <<>>

\* the prices the ticker can quote, for C29
Quotes == { 5 * c : c \in 0..100 }

\* the percentages executeTrade computes the levels of a request with
SlPercentOf(loc) ==
  OrElse(loc.signal.stopLossPercent, Some(loc.userSettings.default_stop_loss_percent))[1]
TpPercentOf(loc) ==
  OrElse(loc.signal.takeProfitPercent, Some(loc.userSettings.default_take_profit_percent))[1]

\* C29: for a position whose levels execute_trade computed from a positive
\* fill price with 0 < slPct < 100 and tpPct > 0, the fill price lies strictly
\* between the levels (BUY: stopLoss < fill < takeProfit, SELL: takeProfit <
\* fill < stopLoss), so at no current price are both trigger conditions of
\* the monitor true, and the monitor's stop-loss-first test hides no take
\* profit.
C29_LevelsNeverBothCrossed ==
  \A p \in Procs :
    LET loc == proc[p] IN
    ( /\ loc.savedOrder # Null
      /\ loc.savedOrder[1].stop_loss_price # Null
      /\ loc.savedOrder[1].avg_fill_price[1] > 0
      /\ SlPercentOf(loc) > 0 /\ SlPercentOf(loc) < 100
      /\ TpPercentOf(loc) > 0 )
    => LET position == loc.savedOrder[1]
           fill == position.avg_fill_price[1]
           stopLoss == position.stop_loss_price[1]
           takeProfit == position.take_profit_price[1]
       IN /\ position.side = "BUY" => (stopLoss < fill /\ fill < takeProfit)
          /\ position.side = "SELL" => (takeProfit < fill /\ fill < stopLoss)
          /\ \A c \in Quotes :
               /\ ~(StopLossHit(position.side, c, stopLoss)
                      /\ TakeProfitHit(position.side, c, takeProfit))
               /\ TriggerType(position, c) = "STOP_LOSS"
                    <=> StopLossHit(position.side, c, stopLoss)
               /\ TriggerType(position, c) = "TAKE_PROFIT"
                    <=> TakeProfitHit(position.side, c, takeProfit)

\* a SELL position filled at 200 with a stop loss of 20% and a take profit of
\* 100%: the levels are 240 and 0
C29_Witness ==
  \E p \in Procs :
    LET loc == proc[p] IN
    /\ loc.savedOrder # Null
    /\ orders[1] = loc.savedOrder[1]
    /\ orders[1].side = "SELL" /\ orders[1].avg_fill_price = Some(200)
    /\ SlPercentOf(loc) = 20 /\ TpPercentOf(loc) = 100
    /\ orders[1].stop_loss_price = Some(240)
    /\ orders[1].take_profit_price = Some(0)
    /\ TriggerType(orders[1], 0) = "TAKE_PROFIT"
    /\ TriggerType(orders[1], 240) = "STOP_LOSS"

\* C30: every row execute_trade hands to the insert satisfies the CHECK
\* constraints of the orders table on side, type and status, so the table does
\* not refuse the row of an order the exchange accepted; and the side of a
\* stored row is one the monitor compares with (BUY or SELL).
C30_RowsSatisfyLedgerChecks ==
  /\ \A p \in Procs :
       LET loc == proc[p] IN
       loc.pc = "et_insert"
       => OrdersChecks(OrderData(loc.signal, loc.userSettings, loc.binanceOrder[1],
                                 loc.stopLossPrice, loc.takeProfitPrice))
  /\ \A i \in 1..Len(orders) :
       /\ OrdersChecks(orders[i])
       /\ orders[i].side \in Sides
====
